---------------------------- MODULE Spec2Model ----------------------------
(***************************************************************************)
(* Model of the single-header test harness inc/ctest/ctest.h: the          *)
(* assertion macros, the test function built by CTEST_TEST, the evaluator  *)
(* ctest__assert, the runner ctest__run_tests, ctest__get_timestamp and    *)
(* the main() generated by CTEST_RUN_TESTS.                                *)
(*                                                                         *)
(* The program is single threaded; pc is the position of that thread.      *)
(* The tests are code of the including program: the body of the test that  *)
(* is being run is drawn one statement at a time from AssertionSet, and a  *)
(* test written by hand (any `static int test_x(void)` matches the ADD     *)
(* forward declaration) returns a value of HandWrittenReturns.             *)
(***************************************************************************)
EXTENDS Integers, Sequences, FiniteSets

\* ---- bounds ----------------------------------------------------------------
MaxTests   == 3   \* longest TESTS list
MaxAsserts == 2   \* most assertion statements in one CTEST_TEST body
MaxClock   == 2   \* time(NULL) starts at 0 and stops advancing here

\* ---- inputs ----------------------------------------------------------------
\* values a hand-written test function returns
HandWrittenReturns == {-1, 0, 1}
\* C strings: sequences of character codes
StrA  == <<97>>
StrAB == <<97, 98>>
NoStr == <<>>

VARIABLES
    tests_defined,      \* TESTS is #defined when ctest.h is included
    registry,           \* the names ADD(...)ed in TESTS, in order
    pc,                 \* position of the thread
    clock,              \* what time(NULL) returns now
    test_count, fail_test_count, failed_assertions, pass_test_count,
    start_time, end_time,            \* locals of ctest__run_tests
    idx,                \* which ADD(...) expansion of the run loop is next
    t_failed_assertions,\* the local failed_assertions of the running test
    assert_ret,         \* value returned by the last ctest__assert call
    body,               \* the assertion statements of the running test
    ai,                 \* how many of them have been executed
    invoked,            \* names of the tests called so far
    returned,           \* values the called tests have returned
    stdout, stderr,     \* lines written to the two streams
    ret,                \* value returned by ctest__run_tests
    exit_code           \* process exit status, -1 while the process runs

vars == <<tests_defined, registry, pc, clock, test_count, fail_test_count,
          failed_assertions, pass_test_count, start_time, end_time, idx,
          t_failed_assertions, assert_ret, body, ai, invoked, returned,
          stdout, stderr, ret, exit_code>>

\* ---- pure helpers ----------------------------------------------------------
RECURSIVE strcmp(_, _)
strcmp(a, b) ==
    IF a = <<>> /\ b = <<>> THEN 0
    ELSE IF a = <<>> THEN -1
    ELSE IF b = <<>> THEN 1
    ELSE IF Head(a) < Head(b) THEN -1
    ELSE IF Head(a) > Head(b) THEN 1
    ELSE strcmp(Tail(a), Tail(b))

\* an assertion statement: the macro used and its arguments
Assertion(macro, a, b, s, t) ==
    [macro |-> macro, a |-> a, b |-> b, s |-> s, t |-> t]

AssertionSet ==
    {Assertion(m, c, 0, NoStr, NoStr) :
        m \in {"CTEST_ASSERT", "CTEST_ASSERT_MSG"}, c \in {0, 2}}
    \cup
    {Assertion(m, 1, b, NoStr, NoStr) :
        m \in {"CTEST_ASSERT_EQ", "CTEST_ASSERT_EQ_MSG"}, b \in {1, 2}}
    \cup
    {Assertion(m, 0, 0, StrA, t) :
        m \in {"CTEST_ASSERT_EQ_STR", "CTEST_ASSERT_EQ_STR_MSG"},
        t \in {StrA, StrAB}}

\* the `condition` each macro hands to ctest__assert (converted to bool)
Condition(as) ==
    CASE as.macro \in {"CTEST_ASSERT", "CTEST_ASSERT_MSG"} -> as.a # 0
      [] as.macro \in {"CTEST_ASSERT_EQ", "CTEST_ASSERT_EQ_MSG"} -> as.a = as.b
      [] as.macro \in {"CTEST_ASSERT_EQ_STR", "CTEST_ASSERT_EQ_STR_MSG"} ->
            strcmp(as.s, as.t) = 0

\* the msg argument: "" for the plain macros, the caller's text otherwise
Message(as) ==
    IF as.macro \in {"CTEST_ASSERT", "CTEST_ASSERT_EQ", "CTEST_ASSERT_EQ_STR"}
    THEN "" ELSE "msg"

assertAlwaysTrue(result, expression, file, test_name, line, msg) ==
    [ret |-> TRUE,
     err |-> IF result THEN <<>>
             ELSE <<[kind |-> "assert", file |-> file, line |-> line,
                     test_name |-> test_name]>>]

\* ctest__assert: the value returned and the lines written to stderr.  The
\* log keeps where the diagnostic comes from (file, line, test); the texts of
\* the expression and of the formatted message are not kept.
ctest__assert(result, expression, file, test_name, line, msg) ==
    IF result
    THEN [ret |-> TRUE, err |-> <<>>]
    ELSE [ret |-> FALSE,
          err |-> <<[kind |-> "assert", file |-> file, line |-> line,
                     test_name |-> test_name]>>]

\* `failed_assertions += !ctest__assert(...) ? 1 : 0`
AddFailed(fa, r) == fa + (IF ~r THEN 1 ELSE 0)

\* `#define ADD(name) test_count++;  TESTS`
CountTestsFromOne(reg) == Len(reg) + 1
RECURSIVE CountTests(_)
CountTests(reg) == IF reg = <<>> THEN 0 ELSE 1 + CountTests(Tail(reg))

\* `if (failed_assertions > 0)` of the run loop
TestFailed(fa) == fa > 0

\* `fail_test_count++` in the failed branch
NextFailCountAddsAssertions(fc, fa) == IF TestFailed(fa) THEN fc + fa ELSE fc
NextFailCount(fc, fa) == IF TestFailed(fa) THEN fc + 1 ELSE fc

\* `int pass_test_count = test_count - fail_test_count;`
PassCount(tc, fc) == tc - fc

\* `if (fail_test_count > 0) return false; return true;`
ReturnValueOffByOne(fc) == IF fc > 1 THEN FALSE ELSE TRUE
ReturnValue(fc) == IF fc > 0 THEN FALSE ELSE TRUE

\* `return ctest__run_tests() ? 0 : 1;`
MainStatus(r) == IF r THEN 0 ELSE 1

\* strftime(buffer, 9, "%H:%M:%S", localtime(&rawtime))
Timestamp(t) == <<(t \div 3600) % 24, (t \div 60) % 60, t % 60>>

\* the bodies a CTEST_TEST can have: any sequence of assertion statements
Bodies == UNION {[1..n -> AssertionSet] : n \in 0..MaxAsserts}

\* the number of statements of a body whose condition is false
NumFalse(b) == Cardinality({i \in DOMAIN b : ~Condition(b[i])})

\* control has reached `return failed_assertions;`
BodyDoneOrFailed == ai = Len(body) \/ t_failed_assertions > 0
BodyDone == ai = Len(body)

\* another ADD(...) expansion of the run loop is left
MoreTestsUntilFailure == idx <= Len(registry) /\ fail_test_count = 0
MoreTests == idx <= Len(registry)

\* the states of the run named by the design
State ==
    CASE pc = "start" -> "NotStarted"
      [] pc \in {"running", "in_test", "assert_ret", "classify"} -> "Running"
      [] pc \in {"reporting", "get_timestamp", "duration", "return", "returned"}
            -> "Reporting"
      [] pc = "done" -> "Done"
      [] pc = "exited" -> "Exited"

\* ---- initial state ---------------------------------------------------------
Init ==
    /\ tests_defined \in BOOLEAN
    /\ registry \in {[i \in 1..n |-> i] : n \in 0..MaxTests}
    /\ (~tests_defined => registry = <<>>)
    /\ pc = "start"
    /\ clock = 0
    /\ test_count = 0 /\ fail_test_count = 0 /\ failed_assertions = 0
    /\ pass_test_count = 0 /\ start_time = 0 /\ end_time = 0
    /\ idx = 1
    /\ t_failed_assertions = 0
    /\ assert_ret = TRUE
    /\ body = <<>> /\ ai = 0
    /\ invoked = <<>> /\ returned = <<>>
    /\ stdout = <<>> /\ stderr = <<>>
    /\ ret = FALSE
    /\ exit_code = -1

\* ---- actions ---------------------------------------------------------------
\* time passes
Tick ==
    /\ pc \notin {"done", "exited"}
    /\ clock < MaxClock
    /\ clock' = clock + 1
    /\ UNCHANGED <<tests_defined, registry, pc, test_count, fail_test_count,
                   failed_assertions, pass_test_count, start_time, end_time,
                   idx, t_failed_assertions, assert_ret, body, ai, invoked,
                   returned, stdout, stderr, ret, exit_code>>

\* main calls ctest__run_tests: the #ifndef TESTS block, the count, the
\* startup line and the initialisation of the counters and of start_time
Start ==
    /\ pc = "start"
    /\ IF ~tests_defined
       THEN /\ stderr' = Append(stderr, [kind |-> "no_tests"])
            /\ exit_code' = 1
            /\ pc' = "exited"
            /\ UNCHANGED <<test_count, fail_test_count, failed_assertions,
                           start_time, stdout>>
       ELSE /\ test_count' = CountTests(registry)
            /\ stdout' = Append(stdout, [kind |-> "info",
                                         total |-> CountTests(registry)])
            /\ fail_test_count' = 0
            /\ failed_assertions' = 0
            /\ start_time' = clock
            /\ pc' = "running"
            /\ UNCHANGED <<stderr, exit_code>>
    /\ UNCHANGED <<tests_defined, registry, clock, pass_test_count, end_time,
                   idx, t_failed_assertions, assert_ret, body, ai, invoked,
                   returned, ret>>

\* the run loop calls a test defined with CTEST_TEST
CallTest ==
    /\ pc = "running"
    /\ MoreTests
    /\ invoked' = Append(invoked, registry[idx])
    /\ body' \in Bodies
    /\ ai' = 0
    /\ t_failed_assertions' = 0
    /\ pc' = "in_test"
    /\ UNCHANGED <<tests_defined, registry, clock, test_count, fail_test_count,
                   failed_assertions, pass_test_count, start_time, end_time,
                   idx, assert_ret, returned, stdout, stderr, ret, exit_code>>

\* the next statement of the body, an assertion macro, evaluates its
\* condition and calls ctest__assert
CallAssert ==
    /\ pc = "in_test"
    /\ ~BodyDone
    /\ LET as == body[ai + 1]
           r  == ctest__assert(Condition(as), as.macro, "test.c",
                               registry[idx], ai + 1, Message(as))
       IN  /\ assert_ret' = r.ret
           /\ stderr' = stderr \o r.err
    /\ ai' = ai + 1
    /\ pc' = "assert_ret"
    /\ UNCHANGED <<tests_defined, registry, clock, test_count, fail_test_count,
                   failed_assertions, pass_test_count, start_time, end_time,
                   idx, t_failed_assertions, body, invoked, returned, stdout,
                   ret, exit_code>>

\* the macro adds the outcome to the test's failed_assertions
CountAssert ==
    /\ pc = "assert_ret"
    /\ t_failed_assertions' = AddFailed(t_failed_assertions, assert_ret)
    /\ pc' = "in_test"
    /\ UNCHANGED <<tests_defined, registry, clock, test_count, fail_test_count,
                   failed_assertions, pass_test_count, start_time, end_time,
                   idx, assert_ret, body, ai, invoked, returned, stdout, stderr,
                   ret, exit_code>>

\* the body is over: `return failed_assertions;`, assigned by the run loop
TestReturn ==
    /\ pc = "in_test"
    /\ BodyDone
    /\ failed_assertions' = t_failed_assertions
    /\ returned' = Append(returned, t_failed_assertions)
    /\ pc' = "classify"
    /\ UNCHANGED <<tests_defined, registry, clock, test_count, fail_test_count,
                   pass_test_count, start_time, end_time, idx,
                   t_failed_assertions, assert_ret, body, ai, invoked, stdout,
                   stderr, ret, exit_code>>

\* the run loop calls a test function written by hand, which returns v
RunHandWritten ==
    /\ pc = "running"
    /\ MoreTests
    /\ \E v \in HandWrittenReturns :
          /\ failed_assertions' = v
          /\ returned' = Append(returned, v)
    /\ invoked' = Append(invoked, registry[idx])
    /\ pc' = "classify"
    /\ UNCHANGED <<tests_defined, registry, clock, test_count, fail_test_count,
                   pass_test_count, start_time, end_time, idx,
                   t_failed_assertions, assert_ret, body, ai, stdout, stderr,
                   ret, exit_code>>

\* the if/else of the ADD expansion in the run loop
Classify ==
    /\ pc = "classify"
    /\ IF TestFailed(failed_assertions)
       THEN /\ stderr' = Append(stderr, [kind |-> "test_failed",
                                         name |-> registry[idx],
                                         count |-> failed_assertions])
       ELSE /\ stderr' = Append(stderr, [kind |-> "test_passed",
                                         name |-> registry[idx]])
    /\ fail_test_count' = NextFailCount(fail_test_count, failed_assertions)
    /\ idx' = idx + 1
    /\ body' = <<>> /\ ai' = 0 /\ t_failed_assertions' = 0
    /\ assert_ret' = TRUE
    /\ pc' = "running"
    /\ UNCHANGED <<tests_defined, registry, clock, test_count,
                   failed_assertions, pass_test_count, start_time, end_time,
                   invoked, returned, stdout, ret, exit_code>>

\* after the last expansion: `time_t end_time = time(NULL);`
EndRun ==
    /\ pc = "running"
    /\ ~MoreTests
    /\ end_time' = clock
    /\ pc' = "reporting"
    /\ UNCHANGED <<tests_defined, registry, clock, test_count, fail_test_count,
                   failed_assertions, pass_test_count, start_time, idx,
                   t_failed_assertions, assert_ret, body, ai, invoked, returned,
                   stdout, stderr, ret, exit_code>>

\* the blank line, pass_test_count and the failed | passed (total) line
PrintSummary ==
    /\ pc = "reporting"
    /\ pass_test_count' = PassCount(test_count, fail_test_count)
    /\ stdout' = stdout \o <<[kind |-> "blank"],
                             [kind |-> "summary",
                              failed |-> fail_test_count,
                              passed |-> PassCount(test_count,
                                                   fail_test_count),
                              total |-> test_count]>>
    /\ pc' = "get_timestamp"
    /\ UNCHANGED <<tests_defined, registry, clock, test_count, fail_test_count,
                   failed_assertions, start_time, end_time, idx,
                   t_failed_assertions, assert_ret, body, ai, invoked, returned,
                   stderr, ret, exit_code>>

GetTimestampWithoutExit ==
    /\ pc = "get_timestamp"
    /\ \E allocated \in BOOLEAN :
          /\ stderr' = IF allocated THEN stderr
                       ELSE Append(stderr, [kind |-> "no_memory"])
          /\ stdout' = Append(stdout, [kind |-> "start_at",
                                       text |-> Timestamp(clock)])
    /\ pc' = "duration"
    /\ UNCHANGED <<tests_defined, registry, clock, test_count, fail_test_count,
                   failed_assertions, pass_test_count, start_time, end_time,
                   idx, t_failed_assertions, assert_ret, body, ai, invoked,
                   returned, ret, exit_code>>

\* ctest__get_timestamp and the "Start at" line; malloc may return NULL
GetTimestamp ==
    /\ pc = "get_timestamp"
    /\ \E allocated \in BOOLEAN :
          IF ~allocated
          THEN /\ stderr' = Append(stderr, [kind |-> "no_memory"])
               /\ exit_code' = 1
               /\ pc' = "exited"
               /\ UNCHANGED stdout
          ELSE /\ stdout' = Append(stdout, [kind |-> "start_at",
                                            text |-> Timestamp(clock)])
               /\ pc' = "duration"
               /\ UNCHANGED <<stderr, exit_code>>
    /\ UNCHANGED <<tests_defined, registry, clock, test_count, fail_test_count,
                   failed_assertions, pass_test_count, start_time, end_time,
                   idx, t_failed_assertions, assert_ret, body, ai, invoked,
                   returned, ret>>

\* the "Duration" line
PrintDuration ==
    /\ pc = "duration"
    /\ stdout' = Append(stdout, [kind |-> "duration",
                                 seconds |-> end_time - start_time])
    /\ pc' = "return"
    /\ UNCHANGED <<tests_defined, registry, clock, test_count, fail_test_count,
                   failed_assertions, pass_test_count, start_time, end_time,
                   idx, t_failed_assertions, assert_ret, body, ai, invoked,
                   returned, stderr, ret, exit_code>>

\* ctest__run_tests returns
Return ==
    /\ pc = "return"
    /\ ret' = ReturnValue(fail_test_count)
    /\ pc' = "returned"
    /\ UNCHANGED <<tests_defined, registry, clock, test_count, fail_test_count,
                   failed_assertions, pass_test_count, start_time, end_time,
                   idx, t_failed_assertions, assert_ret, body, ai, invoked,
                   returned, stdout, stderr, exit_code>>

\* main returns the exit status
MainReturn ==
    /\ pc = "returned"
    /\ exit_code' = MainStatus(ret)
    /\ pc' = "done"
    /\ UNCHANGED <<tests_defined, registry, clock, test_count, fail_test_count,
                   failed_assertions, pass_test_count, start_time, end_time,
                   idx, t_failed_assertions, assert_ret, body, ai, invoked,
                   returned, stdout, stderr, ret>>

Next ==
    \/ Tick
    \/ Start
    \/ CallTest
    \/ CallAssert
    \/ CountAssert
    \/ TestReturn
    \/ RunHandWritten
    \/ Classify
    \/ EndRun
    \/ PrintSummary
    \/ GetTimestamp
    \/ PrintDuration
    \/ Return
    \/ MainReturn

Spec == Init /\ [][Next]_vars


\* ---- what the streams show --------------------------------------------------
Lines(stream, kind) == SelectSeq(stream, LAMBDA l : l.kind = kind)
Printed(stream, kind) == Lines(stream, kind) # <<>>
Summary == Lines(stdout, "summary")[1]
\* tests the run has reported as failed
NumReportedFailed == Len(Lines(stderr, "test_failed"))
AllPassed == \A i \in DOMAIN returned : returned[i] = 0

\* ---- properties -------------------------------------------------------------

\* C1: a run that reaches Done has returned true with exit code 0 exactly when
\* no test was reported failed, and false with exit code 1 otherwise.
C1_ExitReflectsFailures ==
    pc = "done" =>
        /\ (NumReportedFailed = 0 => ret = TRUE /\ exit_code = 0)
        /\ (NumReportedFailed # 0 => ret = FALSE /\ exit_code = 1)
C1_Witness ==
    pc = "done" /\ Len(registry) = 3 /\ NumReportedFailed = 1 /\ exit_code = 1

\* C2: the tests are called one by one in the order of the registry, each
\* once, whatever they return, and the run is in Reporting (or beyond) only
\* when every test of the registry has been called.
C2_AllInvokedInOrder ==
    /\ Len(invoked) <= Len(registry)
    /\ invoked = SubSeq(registry, 1, Len(invoked))
    /\ (State = "Running" => Len(invoked) \in {idx - 1, idx})
    /\ (State \in {"Reporting", "Done"} => invoked = registry)
    /\ (Printed(stdout, "summary") => invoked = registry)
C2_Witness ==
    /\ State = "Reporting"
    /\ Len(registry) = 3
    /\ returned[1] > 0
    /\ invoked = registry

\* C3: a test built from assertion macros returns the number of its
\* statements whose condition is false: every statement is executed, a false
\* one adds 1 to the count and a true one adds 0.
C3_ReturnsNumberOfFalse ==
    [][/\ (pc = "assert_ret" /\ pc' = "in_test") =>
            t_failed_assertions' = t_failed_assertions
                + (IF Condition(body[ai]) THEN 0 ELSE 1)
       /\ (pc = "in_test" /\ pc' = "classify") =>
            /\ ai = Len(body)
            /\ failed_assertions' = NumFalse(body)
            /\ returned' = Append(returned, NumFalse(body))]_vars
C3_Witness ==
    /\ pc = "classify"
    /\ Len(body) = 2
    /\ ~Condition(body[1]) /\ Condition(body[2])
    /\ body[1].macro = "CTEST_ASSERT_EQ_STR"
    /\ failed_assertions = 1

\* C4 (as amended): three tests of which the first returns 0, the second 1
\* and the third 2 give the summary "2 failed | 1 passed (3)" and exit code 1.
C4_TwoFailedOnePassed ==
    (pc = "done" /\ Len(registry) = 3 /\ returned = <<0, 1, 2>>) =>
        /\ Summary = [kind |-> "summary", failed |-> 2, passed |-> 1,
                      total |-> 3]
        /\ exit_code = 1
C4_Witness ==
    /\ pc = "done" /\ Len(registry) = 3 /\ returned = <<0, 1, 2>>
    /\ Len(Lines(stderr, "assert")) = 3
\* C4 as stated: the same run gives "1 failed | 2 passed (3)" and exit code 1.
C4_Original ==
    (pc = "done" /\ Len(registry) = 3 /\ returned = <<0, 1, 2>>) =>
        /\ Summary = [kind |-> "summary", failed |-> 1, passed |-> 2,
                      total |-> 3]
        /\ exit_code = 1

\* C5: once the summary is printed, its total is the number of registry
\* entries and the number announced at startup, its failed count is the number
\* of tests reported failed, passed = total - failed and 0 <= failed <= total;
\* when every test returned 0 it reads "0 failed | N passed (N)" and a run
\* that ends does so with exit code 0.
C5_SummaryCounts ==
    Printed(stdout, "summary") =>
        /\ Len(Lines(stdout, "summary")) = 1
        /\ Summary.total = Len(registry)
        /\ Lines(stdout, "info") = <<[kind |-> "info", total |-> Summary.total]>>
        /\ Summary.failed = NumReportedFailed
        /\ Summary.passed = Summary.total - Summary.failed
        /\ 0 <= Summary.failed /\ Summary.failed <= Summary.total
        /\ (AllPassed =>
              /\ Summary.failed = 0
              /\ Summary.passed = Len(registry)
              /\ (pc = "done" => exit_code = 0))
C5_Witness ==
    /\ pc = "done" /\ Len(registry) = 3 /\ AllPassed
    /\ Summary = [kind |-> "summary", failed |-> 0, passed |-> 3, total |-> 3]
    /\ exit_code = 0

\* C6 as stated: with no test registered, whether TESTS is undefined or
\* defined empty, the run never enters Running, prints neither the startup
\* line nor a summary, and ends with the "no tests" diagnostic and exit code 1.
C6_EmptyRegistryIsFatal ==
    Len(registry) = 0 =>
        /\ State \in {"NotStarted", "Exited"}
        /\ stdout = <<>>
        /\ (State = "Exited" =>
              exit_code = 1 /\ stderr = <<[kind |-> "no_tests"]>>)

\* C7 as stated: between two tests the failed-test counter is the number of
\* tests called so far that returned a value other than 0.
C7_NonZeroIsFailed ==
    pc # "classify" =>
        fail_test_count =
            Cardinality({i \in DOMAIN returned : returned[i] # 0})

\* C8 as stated: the "Start at" line shows the time at which the run
\* started and the "Duration" line the end time minus that start time.
C8_StartAtIsStartTime ==
    pc = "done" =>
        /\ Lines(stdout, "start_at") =
              <<[kind |-> "start_at", text |-> Timestamp(start_time)]>>
        /\ Lines(stdout, "duration") =
              <<[kind |-> "duration", seconds |-> end_time - start_time]>>

\* C9: a call of ctest__assert returns the condition it was given; a true
\* condition writes nothing, a false one writes one diagnostic to stderr; in
\* both cases the test's failed_assertions and the runner's counters are
\* left as they were.
C9_AssertIsPure ==
    [][(pc = "in_test" /\ pc' = "assert_ret") =>
        LET c == Condition(body[ai + 1])
        IN  /\ assert_ret' = c
            /\ UNCHANGED <<t_failed_assertions, failed_assertions, test_count,
                           fail_test_count, pass_test_count, idx, returned,
                           invoked, stdout, ret, exit_code>>
            /\ (c => stderr' = stderr)
            /\ (~c => /\ Len(stderr') = Len(stderr) + 1
                      /\ SubSeq(stderr', 1, Len(stderr)) = stderr
                      /\ stderr'[Len(stderr')].kind = "assert")]_vars
C9_Witness ==
    /\ pc = "assert_ret" /\ ~assert_ret
    /\ ai = 2 /\ Condition(body[1]) /\ ~Condition(body[2])
    /\ t_failed_assertions = 0
    /\ Len(Lines(stderr, "assert")) = 1

\* C10 (as amended): when the timestamp buffer cannot be allocated the
\* process ends at once with the diagnostic and exit status 1; the
\* failed | passed (total) line has been printed by then, the "Start at" and
\* "Duration" lines never are.
C10_AllocFailureAfterSummary ==
    Printed(stderr, "no_memory") =>
        /\ pc = "exited" /\ exit_code = 1
        /\ stderr[Len(stderr)] = [kind |-> "no_memory"]
        /\ Len(Lines(stdout, "summary")) = 1
        /\ ~Printed(stdout, "start_at") /\ ~Printed(stdout, "duration")
C10_Witness ==
    /\ Printed(stderr, "no_memory") /\ pc = "exited"
    /\ Len(registry) = 3 /\ NumReportedFailed = 1
\* C10 as stated: when the allocation fails the process ends with exit
\* status 1 and no part of the summary has been printed.
C10_Original ==
    Printed(stderr, "no_memory") =>
        /\ pc = "exited" /\ exit_code = 1
        /\ ~Printed(stdout, "summary")
=============================================================================
